---- MODULE Spec2Model ----
(***************************************************************************)
(* Model of assistant_bot.py: the Field/Phone/Birthday value classes, the  *)
(* contact Record, the AddressBook (a dict keyed by name) with its         *)
(* upcoming-birthday query, the input_error decorator, the command         *)
(* handlers and the main command loop.                                     *)
(*                                                                         *)
(* Python strings are sequences of code points (naturals), so that         *)
(* re.fullmatch, str.split, str.lower, strptime and sorted() are computed  *)
(* rather than assumed.  A raised exception is a value [exc, msg].         *)
(***************************************************************************)
EXTENDS Integers, Sequences, FiniteSets, TLC

VARIABLES record, data, call, pre, outcome, history, pc

vars == <<record, data, call, pre, outcome, history, pc>>

None == [none |-> TRUE]

(***************************************************************************)
(* Bounds of the model.                                                    *)
(***************************************************************************)
NumValidPhones == 3
NumNames == 3
MaxCalls == 4
MaxPhones == 3
MainMaxPhones == 2

(***************************************************************************)
(* Strings.                                                                *)
(***************************************************************************)
Repeat(c, n) == [i \in 1..n |-> c]

IsDigit(c) == c \in 48..57

IsSpace(c) == c \in {9, 10, 11, 12, 13, 32}

SP == <<32>>

DOT == 46

\* str.lower() on ASCII text
Lower(s) == [i \in 1..Len(s) |-> IF s[i] \in 65..90 THEN s[i] + 32 ELSE s[i]]

\* Python's str comparison: lexicographic by code point
RECURSIVE StrLess(_, _)
StrLess(a, b) ==
    IF Len(a) = 0 THEN Len(b) > 0
    ELSE IF Len(b) = 0 THEN FALSE
    ELSE IF a[1] # b[1] THEN a[1] < b[1]
    ELSE StrLess(Tail(a), Tail(b))

\* str.split(sep) for a one-character separator
RECURSIVE SplitOn(_, _, _)
SplitOn(s, sep, cur) ==
    IF Len(s) = 0 THEN <<cur>>
    ELSE IF s[1] = sep THEN <<cur>> \o SplitOn(Tail(s), sep, <<>>)
    ELSE SplitOn(Tail(s), sep, Append(cur, s[1]))

\* str.split() with no argument: runs of whitespace separate, no empty parts
RECURSIVE SplitWs(_, _)
SplitWs(s, cur) ==
    IF Len(s) = 0 THEN (IF Len(cur) = 0 THEN <<>> ELSE <<cur>>)
    ELSE IF IsSpace(s[1])
         THEN (IF Len(cur) = 0 THEN <<>> ELSE <<cur>>) \o SplitWs(Tail(s), <<>>)
         ELSE SplitWs(Tail(s), Append(cur, s[1]))

\* int() of a string of decimal digits
RECURSIVE ToInt(_)
ToInt(s) == IF Len(s) = 0 THEN 0
            ELSE 10 * ToInt(SubSeq(s, 1, Len(s) - 1)) + (s[Len(s)] - 48)

AllDigits(s) == \A i \in 1..Len(s) : IsDigit(s[i])

(***************************************************************************)
(* Exceptions.                                                             *)
(***************************************************************************)
NoExc == [exc |-> "none", msg |-> ""]

Raise(e, m) == [exc |-> e, msg |-> m]

MsgTenDigits == "Phone number must contain exactly 10 digits."
MsgAlreadyExists == "Phone ... already exists."
MsgPhoneNotFound == "Phone '...' not found."
MsgInvalidDate == "Invalid date format. Use DD.MM.YYYY."
MsgEmptyCommand == "Empty command"
MsgUnpack == "not enough / too many values to unpack"
MsgDayOutOfRange == "day is out of range for month"

(***************************************************************************)
(* Phone                                                                   *)
(***************************************************************************)
PhoneDigits == 10

\* Phone._validate: re.fullmatch(r"\d{10}", phone_number)
Phone_validate(phone_number) ==
    IF Len(phone_number) = PhoneDigits /\ AllDigits(phone_number)
    THEN NoExc
    ELSE Raise("ValueError", MsgTenDigits)

(***************************************************************************)
(* Record                                                                  *)
(***************************************************************************)
Record_init(name) == [name |-> name, phones |-> <<>>, birthday |-> None]

\* index of the first phone whose value equals phone_number, 0 for None
Record_find_phone(rec, phone_number) ==
    IF \E i \in 1..Len(rec.phones) : rec.phones[i] = phone_number
    THEN CHOOSE i \in 1..Len(rec.phones) :
            /\ rec.phones[i] = phone_number
            /\ \A j \in 1..(i - 1) : rec.phones[j] # phone_number
    ELSE 0

Record_add_phone_late_check(rec, phone_number) ==
    LET v == Phone_validate(phone_number)
        added == [rec EXCEPT !.phones = Append(@, phone_number)]
    IN  IF v.exc # "none" THEN [rec |-> rec, res |-> v]
        ELSE IF \E i \in 1..Len(rec.phones) : rec.phones[i] = phone_number
        THEN [rec |-> added, res |-> Raise("ValueError", MsgAlreadyExists)]
        ELSE [rec |-> added, res |-> NoExc]

Record_add_phone(rec, phone_number) ==
    IF \E i \in 1..Len(rec.phones) : rec.phones[i] = phone_number
    THEN [rec |-> rec, res |-> Raise("ValueError", MsgAlreadyExists)]
    ELSE LET v == Phone_validate(phone_number)
         IN  IF v.exc # "none"
             THEN [rec |-> rec, res |-> v]
             ELSE [rec |-> [rec EXCEPT !.phones = Append(@, phone_number)],
                   res |-> NoExc]

\* edit_phone with Phone.set_phone inlined: the found Phone object is
\* revalidated and overwritten in place
Record_edit_phone(rec, old_phone, new_phone) ==
    LET i == Record_find_phone(rec, old_phone)
    IN  IF i = 0
        THEN [rec |-> rec, res |-> Raise("ValueError", MsgPhoneNotFound)]
        ELSE LET v == Phone_validate(new_phone)
             IN  IF v.exc # "none"
                 THEN [rec |-> rec, res |-> v]
                 ELSE [rec |-> [rec EXCEPT !.phones[i] = new_phone],
                       res |-> NoExc]

\* list.remove(phone) removes the found object, the first with that value
Record_remove_phone(rec, phone_number) ==
    LET i == Record_find_phone(rec, phone_number)
    IN  IF i = 0
        THEN [rec |-> rec, res |-> Raise("ValueError", MsgPhoneNotFound)]
        ELSE [rec |-> [rec EXCEPT !.phones =
                          SubSeq(@, 1, i - 1) \o SubSeq(@, i + 1, Len(@))],
              res |-> NoExc]

(***************************************************************************)
(* Inputs of the phone operations.                                         *)
(***************************************************************************)
ValidPhones == {Repeat(48 + d, PhoneDigits) : d \in 0..(NumValidPhones - 1)}

InvalidPhones == { <<>>,
                   Repeat(49, PhoneDigits - 1),
                   Repeat(49, PhoneDigits + 1),
                   Append(Repeat(49, PhoneDigits - 1), 97) }

PhoneInputs == ValidPhones \cup InvalidPhones

TestName == <<65>>

(***************************************************************************)
(* A single Record driven through its phone methods.                       *)
(***************************************************************************)
InitRecord ==
    /\ record = Record_init(TestName)
    /\ data = <<>>
    /\ call = [op |-> "init", args |-> <<>>]
    /\ pre = None
    /\ outcome = NoExc
    /\ history = <<>>
    /\ pc = "api"

AddPhone(p) ==
    LET r == Record_add_phone(record, p)
    IN  /\ Len(r.rec.phones) <= MaxPhones
        /\ record' = r.rec
        /\ call' = [op |-> "add_phone", args |-> <<p>>]
        /\ pre' = record
        /\ outcome' = r.res
        /\ UNCHANGED <<data, history, pc>>

EditPhone(old, new) ==
    LET r == Record_edit_phone(record, old, new)
    IN  /\ record' = r.rec
        /\ call' = [op |-> "edit_phone", args |-> <<old, new>>]
        /\ pre' = record
        /\ outcome' = r.res
        /\ UNCHANGED <<data, history, pc>>

RemovePhone(p) ==
    LET r == Record_remove_phone(record, p)
    IN  /\ record' = r.rec
        /\ call' = [op |-> "remove_phone", args |-> <<p>>]
        /\ pre' = record
        /\ outcome' = r.res
        /\ UNCHANGED <<data, history, pc>>

NextRecord ==
    \/ \E p \in PhoneInputs : AddPhone(p)
    \/ \E old \in PhoneInputs, new \in PhoneInputs : EditPhone(old, new)
    \/ \E p \in PhoneInputs : RemovePhone(p)

SpecRecord == InitRecord /\ [][NextRecord]_vars

(***************************************************************************)
(* C1: after any sequence of add_phone, edit_phone and remove_phone on a   *)
(* Record that started with no phones, no two entries of the phone list    *)
(* hold the same digit string.  (edit_phone does not check the new number  *)
(* against the list, so this is violated.)                                 *)
(***************************************************************************)
C1_NoDuplicatePhones ==
    pc = "api" /\ record # None =>
        \A i \in 1..Len(record.phones), j \in 1..Len(record.phones) :
            i # j => record.phones[i] # record.phones[j]

(***************************************************************************)
(* C5: a phone operation that fails with "already exists" (add_phone) or   *)
(* "not found" (edit_phone, remove_phone) leaves the phone sequence        *)
(* exactly as it was before the call.                                      *)
(***************************************************************************)
PhoneOps == {"add_phone", "edit_phone", "remove_phone"}

C5_FailedPhoneOpKeepsPhones ==
    (/\ call.op \in PhoneOps
     /\ outcome.exc = "ValueError"
     /\ outcome.msg \in {MsgAlreadyExists, MsgPhoneNotFound})
        => record.phones = pre.phones

C5_Witness ==
    /\ call.op = "add_phone"
    /\ outcome.msg = MsgAlreadyExists
    /\ Len(record.phones) >= 2
    /\ record.phones = pre.phones

(***************************************************************************)
(* dict (insertion ordered): a sequence of entries [key, val].             *)
(***************************************************************************)
DictKeys(d) == {d[i].key : i \in 1..Len(d)}

DictIndex(d, k) == CHOOSE i \in 1..Len(d) : d[i].key = k

\* d.get(k)
DictGet(d, k) == IF k \in DictKeys(d) THEN d[DictIndex(d, k)].val ELSE None

\* d[k] = v : an existing key keeps its position, a new key goes last
DictSet(d, k, v) ==
    IF k \in DictKeys(d)
    THEN [d EXCEPT ![DictIndex(d, k)] = [key |-> k, val |-> v]]
    ELSE Append(d, [key |-> k, val |-> v])

\* del d[k]
DictDel(d, k) ==
    LET i == DictIndex(d, k)
    IN  SubSeq(d, 1, i - 1) \o SubSeq(d, i + 1, Len(d))

(***************************************************************************)
(* AddressBook                                                             *)
(***************************************************************************)
AddressBook_add_record_keep_first(d, rec) ==
    IF rec.name \in DictKeys(d) THEN d ELSE DictSet(d, rec.name, rec)

AddressBook_add_record(d, rec) == DictSet(d, rec.name, rec)

AddressBook_find(d, name) == DictGet(d, name)

AddressBook_delete(d, name) ==
    IF name \notin DictKeys(d)
    THEN [data |-> d, res |-> Raise("KeyError", "")]
    ELSE [data |-> DictDel(d, name), res |-> NoExc]

(***************************************************************************)
(* Inputs of the book operations: names, and records as the Record methods *)
(* can have left them.                                                     *)
(***************************************************************************)
\* "B", "AB", "A", "a", "BA"
AllNames == << <<66>>, <<65, 66>>, <<65>>, <<97>>, <<66, 65>> >>

Names == {AllNames[i] : i \in 1..NumNames}

BookRecords ==
    {[name |-> n, phones |-> ph, birthday |-> None] :
        n \in Names, ph \in {<<>>, <<Repeat(48, PhoneDigits)>>}}

(***************************************************************************)
(* An AddressBook driven through add_record, find and delete; history      *)
(* logs the calls made.                                                    *)
(***************************************************************************)
InitBook ==
    /\ record = None
    /\ data = <<>>
    /\ call = [op |-> "init", args |-> <<>>]
    /\ pre = <<>>
    /\ outcome = NoExc
    /\ history = <<>>
    /\ pc = "api"

AddRecord(rec) ==
    /\ Len(history) < MaxCalls
    /\ data' = AddressBook_add_record(data, rec)
    /\ call' = [op |-> "add_record", args |-> <<rec>>]
    /\ pre' = data
    /\ outcome' = NoExc
    /\ history' = Append(history, [op |-> "add_record", name |-> rec.name, rec |-> rec])
    /\ UNCHANGED <<record, pc>>

Delete(name) ==
    LET r == AddressBook_delete(data, name)
    IN  /\ Len(history) < MaxCalls
        /\ data' = r.data
        /\ call' = [op |-> "delete", args |-> <<name>>]
        /\ pre' = data
        /\ outcome' = r.res
        /\ history' = Append(history, [op |-> "delete", name |-> name, rec |-> None])
        /\ UNCHANGED <<record, pc>>

Find(name) ==
    /\ call' = [op |-> "find", args |-> <<name>>]
    /\ pre' = data
    /\ outcome' = [exc |-> "none", msg |-> "", val |-> AddressBook_find(data, name)]
    /\ UNCHANGED <<record, data, history, pc>>

NextBook ==
    \/ \E rec \in BookRecords : AddRecord(rec)
    \/ \E n \in Names : Delete(n)
    \/ \E n \in Names : Find(n)

SpecBook == InitBook /\ [][NextBook]_vars

\* the record of the last add_record(name) in the log that no later
\* delete(name) follows, None when there is none
RECURSIVE LastWrite(_, _)
LastWrite(h, name) ==
    IF Len(h) = 0 THEN None
    ELSE LET e == h[Len(h)]
         IN  IF e.name # name THEN LastWrite(SubSeq(h, 1, Len(h) - 1), name)
             ELSE IF e.op = "add_record" THEN e.rec
             ELSE None

(***************************************************************************)
(* C7: after any sequence of add_record and delete the book has at most    *)
(* one entry per name, every key is the name of the record under it, and   *)
(* find(name) is the record of the most recent add_record for that name    *)
(* not followed by a delete of it; add_record of a present name does not   *)
(* fail and leaves the entries under the other names as they were.         *)
(***************************************************************************)
C7_BookLastWriteWins ==
    /\ \A i \in 1..Len(data), j \in 1..Len(data) :
            i # j => data[i].key # data[j].key
    /\ \A i \in 1..Len(data) : data[i].key = data[i].val.name
    /\ \A n \in Names : AddressBook_find(data, n) = LastWrite(history, n)
    /\ (call.op = "add_record" /\ call.args[1].name \in DictKeys(pre)) =>
            /\ outcome.exc = "none"
            /\ \A n \in Names \ {call.args[1].name} :
                    AddressBook_find(data, n) = AddressBook_find(pre, n)

C7_Witness ==
    /\ call.op = "add_record"
    /\ call.args[1].name \in DictKeys(pre)
    /\ AddressBook_find(pre, call.args[1].name) # call.args[1]
    /\ AddressBook_find(data, call.args[1].name) = call.args[1]
    /\ Len(data) = 2
    /\ \E i \in 1..Len(history) : history[i].op = "delete"

(***************************************************************************)
(* datetime.date: proleptic Gregorian calendar, as [year, month, day].     *)
(***************************************************************************)
IsLeap(y) == (y % 4 = 0 /\ y % 100 # 0) \/ y % 400 = 0

DaysInMonth(y, m) ==
    IF m = 2 THEN (IF IsLeap(y) THEN 29 ELSE 28)
    ELSE IF m \in {4, 6, 9, 11} THEN 30 ELSE 31

RECURSIVE DaysBeforeMonth(_, _)
DaysBeforeMonth(y, m) ==
    IF m = 1 THEN 0 ELSE DaysBeforeMonth(y, m - 1) + DaysInMonth(y, m - 1)

DaysBeforeYear(y) ==
    LET p == y - 1 IN p * 365 + (p \div 4) - (p \div 100) + (p \div 400)

\* date.toordinal(): 1 for 0001-01-01
ToOrdinal(d) == DaysBeforeYear(d.year) + DaysBeforeMonth(d.year, d.month) + d.day

\* (a - b).days
DaysBetween(a, b) == ToOrdinal(a) - ToOrdinal(b)

\* weekday of the date with the given ordinal, Monday = 0 .. Sunday = 6
WeekdayOfOrdinal(n) == (n + 6) % 7

\* date.weekday()
Weekday(d) == WeekdayOfOrdinal(ToOrdinal(d))

\* date.replace(year=y): fails when the day does not exist in that year
Date_replace_year(d, y) ==
    IF d.day > DaysInMonth(y, d.month)
    THEN [res |-> Raise("ValueError", MsgDayOutOfRange), val |-> None]
    ELSE [res |-> NoExc, val |-> [d EXCEPT !.year = y]]

\* calendar.day_name
day_name == <<"Monday", "Tuesday", "Wednesday", "Thursday", "Friday",
              "Saturday", "Sunday">>

(***************************************************************************)
(* Birthday                                                                *)
(***************************************************************************)
\* the %d directive: 01..31, 1..9, or a blank and 1..9
MatchesDay(f) ==
    \/ Len(f) = 1 /\ f[1] \in 49..57
    \/ Len(f) = 2 /\ f[1] = 32 /\ f[2] \in 49..57
    \/ Len(f) = 2 /\ AllDigits(f) /\ ToInt(f) \in 1..31

\* the %m directive: 01..12 or 1..9
MatchesMonth(f) ==
    \/ Len(f) = 1 /\ f[1] \in 49..57
    \/ Len(f) = 2 /\ AllDigits(f) /\ ToInt(f) \in 1..12

\* the %Y directive: four digits
MatchesYear(f) == Len(f) = 4 /\ AllDigits(f)

\* Birthday.__init__: datetime.strptime(value, "%d.%m.%Y").date(), any
\* failure re-raised as "Invalid date format"
Birthday_init(value) ==
    LET f == SplitOn(value, DOT, <<>>)
        bad == [res |-> Raise("ValueError", MsgInvalidDate), val |-> None]
    IN  IF Len(f) # 3 THEN bad
        ELSE IF ~(MatchesDay(f[1]) /\ MatchesMonth(f[2]) /\ MatchesYear(f[3]))
        THEN bad
        ELSE LET d == ToInt(SelectSeq(f[1], IsDigit))
                 m == ToInt(f[2])
                 y == ToInt(f[3])
             IN  IF y < 1 \/ d > DaysInMonth(y, m) THEN bad
                 ELSE [res |-> NoExc,
                       val |-> [year |-> y, month |-> m, day |-> d]]

\* Record.add_birthday
Record_add_birthday(rec, birthday) ==
    LET b == Birthday_init(birthday)
    IN  IF b.res.exc # "none" THEN [rec |-> rec, res |-> b.res]
        ELSE [rec |-> [rec EXCEPT !.birthday = b.val], res |-> NoExc]

(***************************************************************************)
(* AddressBook.get_upcoming_birthdays                                      *)
(***************************************************************************)
NoUpcoming == "No upcoming birthdays next week."

UpcomingWindow == 7

WeekendShift_none(weekday) == 0

\* days added to an occurrence that falls on Saturday (5) or Sunday (6)
WeekendShift(weekday) == IF weekday >= 5 THEN 7 - weekday ELSE 0

\* the body of the loop for one record: groups maps a weekday number to
\* the list of names collected under calendar.day_name of that weekday
UpcomingRecord(groups, rec, today) ==
    IF rec.birthday = None THEN [res |-> NoExc, groups |-> groups]
    ELSE
    LET r1 == Date_replace_year(rec.birthday, today.year)
    IN  IF r1.res.exc # "none" THEN [res |-> r1.res, groups |-> groups]
        ELSE
        LET d1 == DaysBetween(r1.val, today)
            r2 == IF d1 < 0 THEN Date_replace_year(r1.val, today.year + 1)
                  ELSE r1
        IN  IF r2.res.exc # "none" THEN [res |-> r2.res, groups |-> groups]
            ELSE
            LET delta_days == DaysBetween(r2.val, today)
                weekday == Weekday(r2.val)
                shifted == ToOrdinal(r2.val) + WeekendShift(weekday)
                day == WeekdayOfOrdinal(shifted)
            IN  IF 0 <= delta_days /\ delta_days <= UpcomingWindow
                THEN [res |-> NoExc,
                      groups |-> [groups EXCEPT ![day] = Append(@, rec.name)]]
                ELSE [res |-> NoExc, groups |-> groups]

\* for record in self.data.values(), from entry i on
RECURSIVE UpcomingLoop(_, _, _, _)
UpcomingLoop(d, i, today, groups) ==
    IF i > Len(d) THEN [res |-> NoExc, groups |-> groups]
    ELSE LET r == UpcomingRecord(groups, d[i].val, today)
         IN  IF r.res.exc # "none" THEN r
             ELSE UpcomingLoop(d, i + 1, today, r.groups)

RECURSIVE InsertSorted(_, _)
InsertSorted(x, s) ==
    IF Len(s) = 0 THEN <<x>>
    ELSE IF StrLess(x, s[1]) THEN <<x>> \o s
    ELSE <<s[1]>> \o InsertSorted(x, Tail(s))

RECURSIVE SortNames(_)
SortNames(s) ==
    IF Len(s) = 0 THEN <<>>
    ELSE InsertSorted(s[Len(s)], SortNames(SubSeq(s, 1, Len(s) - 1)))

Sorted_unsorted(s) == s

\* sorted(names): ascending by str comparison
Sorted(s) == SortNames(s)

\* for day in calendar.day_name: one output entry per day that has names
RECURSIVE UpcomingOutput(_, _)
UpcomingOutput(groups, wd) ==
    IF wd > 6 THEN <<>>
    ELSE (IF Len(groups[wd]) > 0
          THEN <<[day |-> day_name[wd + 1], names |-> Sorted(groups[wd])]>>
          ELSE <<>>) \o UpcomingOutput(groups, wd + 1)

\* The returned text is either the fixed sentence or the lines
\* "<day>: <name>, <name>" joined by newlines; the lines are kept as the
\* list of [day, names] they are formatted from.
AddressBook_get_upcoming_birthdays(d, today) ==
    LET r == UpcomingLoop(d, 1, today, [wd \in 0..6 |-> <<>>])
    IN  IF r.res.exc # "none"
        THEN [res |-> r.res, text |-> "", lines |-> <<>>]
        ELSE IF \A wd \in 0..6 : Len(r.groups[wd]) = 0
        THEN [res |-> NoExc, text |-> NoUpcoming, lines |-> <<>>]
        ELSE [res |-> NoExc, text |-> "lines",
              lines |-> UpcomingOutput(r.groups, 0)]

(***************************************************************************)
(* Inputs of the birthday query.                                           *)
(***************************************************************************)
Digits2(n) == <<48 + (n \div 10), 48 + (n % 10)>>

Digits4(n) == Digits2(n \div 100) \o Digits2(n % 100)

\* the text DD.MM.YYYY of a day, month and year
DateStr(d, m, y) == Digits2(d) \o <<DOT>> \o Digits2(m) \o <<DOT>> \o Digits4(y)

BirthdayInputs ==
    { DateStr(10, 6, 2000), DateStr(15, 6, 2000), DateStr(16, 6, 2000),
      DateStr(1, 1, 2000), DateStr(29, 2, 2000),
      <<49, DOT, 49, DOT>> \o Digits4(2000),
      DateStr(29, 2, 2001), DateStr(31, 6, 2000), DateStr(0, 6, 2000),
      Digits2(15) \o <<45>> \o Digits2(6) \o <<45>> \o Digits4(2000),
      Digits2(15) \o <<DOT>> \o Digits2(6) \o <<DOT>> \o Digits2(20) }

\* the dates Birthday() accepts among the inputs
AcceptedBirthdays ==
    {Birthday_init(raw).val :
        raw \in {r \in BirthdayInputs : Birthday_init(r).res.exc = "none"}}

TodayYears == {2023, 2024}

TodayMonthDays ==
    { <<6, 2>>, <<6, 3>>, <<6, 8>>, <<6, 9>>, <<6, 10>>, <<6, 11>>,
      <<6, 14>>, <<6, 15>>, <<6, 16>>, <<12, 25>>, <<12, 28>>, <<1, 1>>,
      <<2, 22>>, <<2, 25>>, <<3, 1>> }

Todays ==
    {[year |-> y, month |-> md[1], day |-> md[2]] :
        y \in TodayYears, md \in TodayMonthDays}

NameOrders ==
    {o \in UNION {[1..k -> Names] : k \in 0..NumNames} :
        \A i \in 1..Len(o), j \in 1..Len(o) : i # j => o[i] # o[j]}

\* the books that add_record(Record(name)) and add_birthday can build
BirthdayBooks ==
    UNION {
        {[i \in 1..Len(o) |->
            [key |-> o[i],
             val |-> [name |-> o[i], phones |-> <<>>, birthday |-> b[i]]]] :
         b \in [1..Len(o) -> AcceptedBirthdays \cup {None}]} :
        o \in NameOrders}

(***************************************************************************)
(* get_upcoming_birthdays applied once to a book, date.today() being any   *)
(* of Todays.                                                              *)
(***************************************************************************)
InitBirthdays ==
    /\ record = None
    /\ data \in BirthdayBooks
    /\ call = [op |-> "init", args |-> <<>>]
    /\ pre = <<>>
    /\ outcome = NoExc
    /\ history = <<>>
    /\ pc = "api"

Upcoming(today) ==
    /\ call.op = "init"
    /\ call' = [op |-> "get_upcoming_birthdays", args |-> <<today>>]
    /\ outcome' = AddressBook_get_upcoming_birthdays(data, today)
    /\ UNCHANGED <<record, data, pre, history, pc>>

NextBirthdays == \E today \in Todays : Upcoming(today)

SpecBirthdays == InitBirthdays /\ [][NextBirthdays]_vars

(***************************************************************************)
(* What the query is specified to return.                                  *)
(***************************************************************************)
Queried == call.op = "get_upcoming_birthdays"

Returned == Queried /\ outcome.res.exc = "none"

QueryToday == call.args[1]

DateExists(y, m, d) == d <= DaysInMonth(y, m)

OnYear(b, y) == [year |-> y, month |-> b.month, day |-> b.day]

\* the year of the next occurrence of birthday b on or after today
OccurrenceYear(b, today) ==
    IF /\ DateExists(today.year, b.month, b.day)
       /\ ToOrdinal(OnYear(b, today.year)) >= ToOrdinal(today)
    THEN today.year
    ELSE today.year + 1

\* the next occurrence lies 0..7 days after today
Qualifies(rec, today) ==
    /\ rec.birthday # None
    /\ LET y == OccurrenceYear(rec.birthday, today)
       IN  /\ DateExists(y, rec.birthday.month, rec.birthday.day)
           /\ ToOrdinal(OnYear(rec.birthday, y)) - ToOrdinal(today) \in 0..7

SeqToSet(s) == {s[i] : i \in 1..Len(s)}

ResultNames == UNION {SeqToSet(outcome.lines[i].names) : i \in 1..Len(outcome.lines)}

DayNumber(day) == CHOOSE i \in 1..7 : day_name[i] = day

(***************************************************************************)
(* C3: a contact's name is in the result of get_upcoming_birthdays if and  *)
(* only if it has a birthday whose next occurrence is 0 to 7 days after    *)
(* today, for every book and every today.  (Violated where the query       *)
(* raises on a 29 February birthday, see C9: qualifying contacts of the    *)
(* same book are then not reported.)                                       *)
(***************************************************************************)
C3_ListedIffInWindow ==
    Queried =>
        \A i \in 1..Len(data) :
            (data[i].key \in ResultNames) <=> Qualifies(data[i].val, QueryToday)

(***************************************************************************)
(* C4: every contact listed in the result stands under the weekday of its  *)
(* occurrence when that is Monday to Friday and under Monday when it is    *)
(* Saturday or Sunday; no line is labelled Saturday or Sunday.             *)
(***************************************************************************)
C4_WeekendMovedToMonday ==
    Returned =>
        \A i \in 1..Len(outcome.lines) :
            /\ outcome.lines[i].day \notin {"Saturday", "Sunday"}
            /\ \A n \in SeqToSet(outcome.lines[i].names) :
                LET b == AddressBook_find(data, n).birthday
                    occ == OnYear(b, OccurrenceYear(b, QueryToday))
                    wd == WeekdayOfOrdinal(ToOrdinal(occ))
                IN  outcome.lines[i].day =
                        (IF wd <= 4 THEN day_name[wd + 1] ELSE "Monday")

C4_Witness ==
    /\ Returned
    /\ \E i \in 1..Len(outcome.lines) :
        /\ outcome.lines[i].day = "Monday"
        /\ {WeekdayOfOrdinal(ToOrdinal(
                OnYear(AddressBook_find(data, n).birthday,
                       OccurrenceYear(AddressBook_find(data, n).birthday,
                                      QueryToday)))) :
              n \in SeqToSet(outcome.lines[i].names)} = {0, 5, 6}

(***************************************************************************)
(* C6: a result with lines lists the weekdays in the order Monday to       *)
(* Sunday, each at most once, no line without names, and the names of a    *)
(* line in ascending lexicographic order.                                  *)
(***************************************************************************)
C6_LinesOrdered ==
    (Returned /\ outcome.text # NoUpcoming) =>
        /\ Len(outcome.lines) > 0
        /\ \A i \in 1..Len(outcome.lines) :
            /\ outcome.lines[i].day \in SeqToSet(day_name)
            /\ Len(outcome.lines[i].names) > 0
            /\ \A k \in 1..(Len(outcome.lines[i].names) - 1) :
                StrLess(outcome.lines[i].names[k], outcome.lines[i].names[k + 1])
        /\ \A i \in 1..(Len(outcome.lines) - 1) :
            DayNumber(outcome.lines[i].day) < DayNumber(outcome.lines[i + 1].day)

C6_Witness ==
    /\ Returned
    /\ Len(outcome.lines) >= 2
    /\ Weekday(QueryToday) > DayNumber(outcome.lines[1].day) - 1
    /\ \E i \in 1..Len(outcome.lines) :
        /\ Len(outcome.lines[i].names) = 2
        /\ DictIndex(data, outcome.lines[i].names[1])
             > DictIndex(data, outcome.lines[i].names[2])

(***************************************************************************)
(* C8: the query returns the fixed "no upcoming birthdays" sentence        *)
(* exactly when no record of the book qualifies for the window, and never  *)
(* an empty list of lines.  (Violated where the query raises, see C9.)     *)
(***************************************************************************)
C8_IndicatorIffNoneQualifies ==
    Queried =>
        /\ (outcome.res.exc = "none" /\ outcome.text = NoUpcoming)
              <=> (\A i \in 1..Len(data) : ~Qualifies(data[i].val, QueryToday))
        /\ ~(outcome.res.exc = "none" /\ outcome.text # NoUpcoming
                /\ Len(outcome.lines) = 0)

(***************************************************************************)
(* C9: get_upcoming_birthdays never raises, whatever accepted birthdays    *)
(* the book holds and whatever today is.  (Violated: a 29 February         *)
(* birthday makes date.replace raise when the target year is not leap.)    *)
(***************************************************************************)
C9_QueryNeverRaises == Queried => outcome.res.exc = "none"

\* C3 and C8 hold of every call that returns
ReturnedListedIffInWindow == Returned => (C3_ListedIffInWindow /\ C8_IndicatorIffNoneQualifies)

(***************************************************************************)
(* input_error: what the wrapper returns for the result of the wrapped     *)
(* function.  A substring test on the exception text is a test on which    *)
(* of the message texts it is.                                             *)
(***************************************************************************)
Reply(t) == [text |-> t, payload |-> <<>>]

GiveMe == "Give me name and phone/birthday please."

input_error(r) ==
    IF r.res.exc = "none" THEN r.val
    ELSE IF r.res.exc = "ValueError" THEN
        (IF r.res.msg = MsgInvalidDate
            THEN Reply("Invalid date format. Use DD.MM.YYYY.")
         ELSE IF r.res.msg = MsgTenDigits
            THEN Reply("Invalid phone format. Phone number must contain exactly 10 digits.")
         ELSE IF r.res.msg = MsgPhoneNotFound THEN Reply(MsgPhoneNotFound)
         ELSE IF r.res.msg = MsgAlreadyExists THEN Reply(MsgAlreadyExists)
         ELSE Reply(GiveMe))
    ELSE IF r.res.exc = "IndexError" THEN Reply(GiveMe)
    ELSE IF r.res.exc = "KeyError" THEN Reply("Contact not found.")
    ELSE Reply("An unexpected error occurred")

(***************************************************************************)
(* Command handlers.  A handler's result is the book after it, the         *)
(* exception it raised if any, and its return value.                       *)
(***************************************************************************)
\* "hello"
kw_hello == <<104, 101, 108, 108, 111>>

\* "add"
kw_add == <<97, 100, 100>>

\* "change"
kw_change == <<99, 104, 97, 110, 103, 101>>

\* "phone"
kw_phone == <<112, 104, 111, 110, 101>>

\* "all"
kw_all == <<97, 108, 108>>

\* "add-birthday"
kw_add_birthday == <<97, 100, 100, 45, 98, 105, 114, 116, 104, 100, 97, 121>>

\* "show-birthday"
kw_show_birthday == <<115, 104, 111, 119, 45, 98, 105, 114, 116, 104, 100, 97, 121>>

\* "birthdays"
kw_birthdays == <<98, 105, 114, 116, 104, 100, 97, 121, 115>>

\* "close"
kw_close == <<99, 108, 111, 115, 101>>

\* "exit"
kw_exit == <<101, 120, 105, 116>>

Handled(d, e, v) == [data |-> d, res |-> e, val |-> v]

\* parse_input, decorated: a (command, args) tuple, or the wrapper's text
parse_input(user_input) ==
    LET parts == SplitWs(user_input, <<>>)
    IN  IF Len(parts) = 0
        THEN [kind |-> "str",
              val |-> input_error(Handled(<<>>, Raise("ValueError", MsgEmptyCommand),
                                          Reply(""))),
              command |-> <<>>, args |-> <<>>]
        ELSE [kind |-> "tuple", val |-> Reply(""),
              command |-> Lower(parts[1]), args |-> Tail(parts)]

\* add_contact: a Record for an unknown name is put into the book before
\* the phone is added to it
add_contact(args, d) ==
    IF Len(args) < 2 THEN Handled(d, Raise("IndexError", ""), Reply(""))
    ELSE
    LET name == args[1]
        phone == args[2]
        found == AddressBook_find(d, name)
        d1 == IF found = None THEN AddressBook_add_record(d, Record_init(name))
              ELSE d
        message == IF found = None THEN "Contact added." ELSE "Contact updated."
        r == Record_add_phone(AddressBook_find(d1, name), phone)
    IN  IF r.res.exc # "none" THEN Handled(d1, r.res, Reply(""))
        ELSE Handled(DictSet(d1, name, r.rec), NoExc, Reply(message))

change_contact(args, d) ==
    IF Len(args) # 3 THEN Handled(d, Raise("ValueError", MsgUnpack), Reply(""))
    ELSE
    LET name == args[1]
        found == AddressBook_find(d, name)
    IN  IF found = None THEN Handled(d, Raise("KeyError", ""), Reply(""))
        ELSE LET r == Record_edit_phone(found, args[2], args[3])
             IN  IF r.res.exc # "none" THEN Handled(d, r.res, Reply(""))
                 ELSE Handled(DictSet(d, name, r.rec), NoExc,
                              Reply("Contact updated successfully."))

show_phone(args, d) ==
    IF Len(args) = 0 THEN Handled(d, Raise("IndexError", ""), Reply(""))
    ELSE
    LET found == AddressBook_find(d, args[1])
    IN  IF found = None THEN Handled(d, Raise("KeyError", ""), Reply(""))
        ELSE Handled(d, NoExc,
                     [text |-> "'s phones: ", payload |-> <<found.name, found.phones>>])

show_all(args, d) ==
    IF Len(d) = 0 THEN Handled(d, NoExc, Reply("The address book is empty."))
    ELSE Handled(d, NoExc,
                 [text |-> "Contact name: ",
                  payload |-> [i \in 1..Len(d) |-> d[i].val]])

add_birthday(args, d) ==
    IF Len(args) # 2 THEN Handled(d, Raise("ValueError", MsgUnpack), Reply(""))
    ELSE
    LET name == args[1]
        found == AddressBook_find(d, name)
    IN  IF found = None THEN Handled(d, Raise("KeyError", ""), Reply(""))
        ELSE LET r == Record_add_birthday(found, args[2])
             IN  IF r.res.exc # "none" THEN Handled(d, r.res, Reply(""))
                 ELSE Handled(DictSet(d, name, r.rec), NoExc,
                              [text |-> "Birthday added for contact",
                               payload |-> <<args[2], name>>])

show_birthday(args, d) ==
    IF Len(args) = 0 THEN Handled(d, Raise("IndexError", ""), Reply(""))
    ELSE
    LET found == AddressBook_find(d, args[1])
    IN  IF found = None THEN Handled(d, Raise("KeyError", ""), Reply(""))
        ELSE IF found.birthday = None
        THEN Handled(d, NoExc,
                     [text |-> "has no birthday record.", payload |-> <<args[1]>>])
        ELSE Handled(d, NoExc,
                     [text |-> "'s birthday: ",
                      payload |-> <<args[1], found.birthday>>])

show_upcoming_birthdays(args, d, today) ==
    LET r == AddressBook_get_upcoming_birthdays(d, today)
    IN  IF r.res.exc # "none" THEN Handled(d, r.res, Reply(""))
        ELSE Handled(d, NoExc, [text |-> r.text, payload |-> r.lines])

\* the keys of the commands dict of main
commands == {kw_hello, kw_add, kw_change, kw_phone, kw_all, kw_add_birthday,
             kw_show_birthday, kw_birthdays}

\* commands[command](args, book), every handler but hello being decorated
RunCommand(command, args, d, today) ==
    IF command = kw_hello THEN Handled(d, NoExc, Reply("How can I help you?"))
    ELSE
    LET r == IF command = kw_add THEN add_contact(args, d)
             ELSE IF command = kw_change THEN change_contact(args, d)
             ELSE IF command = kw_phone THEN show_phone(args, d)
             ELSE IF command = kw_all THEN show_all(args, d)
             ELSE IF command = kw_add_birthday THEN add_birthday(args, d)
             ELSE IF command = kw_show_birthday THEN show_birthday(args, d)
             ELSE show_upcoming_birthdays(args, d, today)
    IN  Handled(r.data, NoExc, input_error(r))

(***************************************************************************)
(* Input lines of the command loop.                                        *)
(***************************************************************************)
RECURSIVE Line(_)
Line(tokens) ==
    IF Len(tokens) = 0 THEN <<>>
    ELSE IF Len(tokens) = 1 THEN tokens[1]
    ELSE tokens[1] \o SP \o Line(Tail(tokens))

MainNames == {AllNames[1], AllNames[2]}

MainPhones == {Repeat(48, PhoneDigits), Repeat(49, PhoneDigits),
               Repeat(49, PhoneDigits - 1)}

MainBirthdays == {DateStr(29, 2, 2000), DateStr(31, 6, 2000)}

MainTodays == {[year |-> 2024, month |-> 6, day |-> 10],
               [year |-> 2023, month |-> 6, day |-> 10]}

\* "EXIT", "quit"
InputLines ==
    { <<>>, SP, SP \o SP,
      kw_hello, kw_exit, kw_close, <<69, 88, 73, 84>>, SP \o kw_close \o SP,
      <<113, 117, 105, 116>>,
      kw_add, kw_change, kw_phone, kw_all, kw_add_birthday, kw_show_birthday,
      kw_birthdays }
    \cup {Line(<<kw_add, n>>) : n \in MainNames}
    \cup {Line(<<kw_add, n, p>>) : n \in MainNames, p \in MainPhones}
    \cup {Line(<<kw_change, n, p, q>>) :
            n \in MainNames, p \in MainPhones, q \in MainPhones}
    \cup {Line(<<kw_phone, n>>) : n \in MainNames}
    \cup {Line(<<kw_add_birthday, n, b>>) : n \in MainNames, b \in MainBirthdays}
    \cup {Line(<<kw_show_birthday, n>>) : n \in MainNames}

(***************************************************************************)
(* main: one action per way an iteration of the while loop can go.         *)
(***************************************************************************)
\* parse_input of every input line
Parsed == [line \in InputLines |-> parse_input(line)]

InitMain ==
    /\ record = None
    /\ data = <<>>
    /\ call = [op |-> "init", args |-> <<>>]
    /\ pre = <<>>
    /\ outcome = Reply("Welcome to the assistant bot!")
    /\ history = <<>>
    /\ pc = "prompt"

\* command, args = parse_input(user_input) where the wrapper returned its
\* text: the unpacking raises ValueError outside every handler
Crash(line) ==
    /\ pc = "prompt"
    /\ Parsed[line].kind = "str"
    /\ call' = [op |-> "input", args |-> <<line>>]
    /\ pre' = data
    /\ outcome' = [text |-> "Traceback", payload |-> <<"ValueError", MsgUnpack>>]
    /\ pc' = "crashed"
    /\ UNCHANGED <<record, data, history>>

Exit(line) ==
    /\ pc = "prompt"
    /\ Parsed[line].kind = "tuple"
    /\ Parsed[line].command \in {kw_close, kw_exit}
    /\ call' = [op |-> "input", args |-> <<line>>]
    /\ pre' = data
    /\ outcome' = Reply("Good bye!")
    /\ pc' = "done"
    /\ UNCHANGED <<record, data, history>>

\* a line whose command is a key of commands; today is what date.today()
\* returns should the handler ask for it
Dispatch(line, today) ==
    /\ pc = "prompt"
    /\ Parsed[line].kind = "tuple"
    /\ Parsed[line].command \notin {kw_close, kw_exit}
    /\ Parsed[line].command \in commands
    /\ \E r \in {RunCommand(Parsed[line].command, Parsed[line].args, data, today)} :
        /\ \A i \in 1..Len(r.data) : Len(r.data[i].val.phones) <= MainMaxPhones
        /\ data' = r.data
        /\ outcome' = r.val
    /\ call' = [op |-> "input", args |-> <<line>>]
    /\ pre' = data
    /\ UNCHANGED <<record, history, pc>>

Command(line) ==
    /\ Parsed[line].command # kw_birthdays
    /\ Dispatch(line, None)

Birthdays(line, today) ==
    /\ Parsed[line].command = kw_birthdays
    /\ Dispatch(line, today)

InvalidCommand(line) ==
    LET p == Parsed[line]
    IN  /\ pc = "prompt"
        /\ p.kind = "tuple"
        /\ p.command \notin {kw_close, kw_exit}
        /\ p.command \notin commands
        /\ call' = [op |-> "input", args |-> <<line>>]
        /\ pre' = data
        /\ outcome' = Reply("Invalid command.")
        /\ UNCHANGED <<record, data, history, pc>>

NextMain ==
    \/ \E line \in InputLines : Crash(line)
    \/ \E line \in InputLines : Exit(line)
    \/ \E line \in InputLines : Command(line)
    \/ \E line \in InputLines, today \in MainTodays : Birthdays(line, today)
    \/ \E line \in InputLines : InvalidCommand(line)

SpecMain == InitMain /\ [][NextMain]_vars

LastLine == call.args[1]

LastWords == SplitWs(LastLine, <<>>)

(***************************************************************************)
(* C2: no input line other than exit or close ends the command loop: after *)
(* any other line (empty, blank, unknown command, wrong arguments, invalid *)
(* phone or date, unknown contact) a message is printed and the loop       *)
(* prompts again.  (Violated: an empty or blank line ends the process with *)
(* an uncaught ValueError.)                                                *)
(***************************************************************************)
C2_OnlyExitEndsLoop ==
    (call.op = "input" /\ pc # "prompt") =>
        /\ pc = "done"
        /\ Len(LastWords) > 0
        /\ Lower(LastWords[1]) \in {kw_close, kw_exit}

(***************************************************************************)
(* C10: an add command that reports an error (invalid phone, duplicate     *)
(* phone, missing arguments) leaves the book as it was, so every record    *)
(* of the book has at least one phone when add returns.  (Violated: an     *)
(* invalid phone for an unknown name leaves a new record without phones.)  *)
(***************************************************************************)
AddErrors == {"Invalid phone format. Phone number must contain exactly 10 digits.",
              MsgAlreadyExists, GiveMe}

C10_FailedAddKeepsBook ==
    (/\ call.op = "input"
     /\ pc = "prompt"
     /\ Len(LastWords) > 0
     /\ Lower(LastWords[1]) = kw_add) =>
        /\ outcome.text \in AddErrors => data = pre
        /\ \A i \in 1..Len(data) : Len(data[i].val.phones) >= 1

====
